---- MODULE Spec2Model ----
(***************************************************************************)
(* Model of the specialized_dispatch! procedural macro (src/src/lib.rs):   *)
(* the parser of the macro's grammar, the generator that lowers a parsed   *)
(* expression to a helper trait, one implementation per arm and a dispatch *)
(* call, and the host compiler that resolves the generated call.           *)
(*                                                                         *)
(* Tokens are strings.  A type, an expression and a trait bound are each   *)
(* one identifier or literal token: syn's Type and Expr grammars are not   *)
(* part of this repository.                                                *)
(***************************************************************************)
EXTENDS Integers, Sequences, FiniteSets, TLC

\* ------------------------------------------------------------- bounds

MaxArms == 3

MaxExtra == 2

MaxScope == 2

\* ------------------------------------------------------------- tokens

Punct == {"->", ",", "<", ">", "(", ")", ":", "=>", "_", ";"}

Literals == {"a1", "a2", "a3", "a4"}

EOF == "<eof>"

Peek(toks, pos) == IF pos >= 1 /\ pos <= Len(toks) THEN toks[pos] ELSE EOF

\* input.peek(Ident): any identifier that is not a strict keyword; the word default
\* is a contextual keyword and is accepted as an identifier.
IsIdent(t) == t \notin Punct /\ t \notin Literals /\ t # "fn" /\ t # EOF

None == << >>

Some(x) == << x >>

Ok(v, p) == [ok |-> TRUE, val |-> v, pos |-> p, err |-> ""]

Err(msg, p) == [ok |-> FALSE, val |-> None, pos |-> p, err |-> msg]

\* input.parse::<Token![..]>()
ParseToken(toks, pos, t) ==
    IF Peek(toks, pos) = t THEN Ok(t, pos + 1) ELSE Err("expected " \o t, pos)

\* syn::Type::parse, for single-identifier types
Type_parse(toks, pos) ==
    IF IsIdent(Peek(toks, pos)) THEN Ok(Peek(toks, pos), pos + 1)
    ELSE Err("expected type", pos)

\* syn::Expr::parse, for single-token expressions
Expr_parse(toks, pos) ==
    IF IsIdent(Peek(toks, pos)) \/ Peek(toks, pos) \in Literals
    THEN Ok(Peek(toks, pos), pos + 1)
    ELSE Err("expected expression", pos)

\* ------------------------------------------------------------- parser

\* the ? operator: the first error is returned to the caller
Try(r, K(_)) == IF r.ok THEN K(r) ELSE r

FnArgName_parse(toks, pos) ==
    IF IsIdent(Peek(toks, pos))
    THEN Ok([variant |-> "Ident", tok |-> Peek(toks, pos)], pos + 1)
    ELSE IF Peek(toks, pos) = "_"
    THEN Ok([variant |-> "Underscore", tok |-> "_"], pos + 1)
    ELSE Err("expected identifier or underscore", pos)

FnArg_parse(toks, pos) ==
    Try(FnArgName_parse(toks, pos), LAMBDA name :
    Try(ParseToken(toks, name.pos, ":"), LAMBDA colon :
    Try(Type_parse(toks, colon.pos), LAMBDA ty :
    Ok([name |-> name.val, ty |-> ty.val], ty.pos))))

\* syn::GenericParam::parse: a type parameter with an optional bound
GenericParam_parse(toks, pos) ==
    IF ~IsIdent(Peek(toks, pos)) THEN Err("expected generic parameter", pos) ELSE
    IF Peek(toks, pos + 1) # ":"
    THEN Ok([name |-> Peek(toks, pos), bounds |-> << >>], pos + 1)
    ELSE IF IsIdent(Peek(toks, pos + 2))
    THEN Ok([name |-> Peek(toks, pos), bounds |-> << Peek(toks, pos + 2) >>], pos + 3)
    ELSE Ok([name |-> Peek(toks, pos), bounds |-> << >>], pos + 2)

\* Punctuated::<GenericParam, Token![,]>::parse_separated_nonempty
RECURSIVE GenericParams_parse_separated_nonempty(_, _, _)
GenericParams_parse_separated_nonempty(toks, pos, acc) ==
    Try(GenericParam_parse(toks, pos), LAMBDA p :
    IF Peek(toks, p.pos) = ","
    THEN GenericParams_parse_separated_nonempty(toks, p.pos + 1, Append(acc, p.val))
    ELSE Ok(Append(acc, p.val), p.pos))

\* Punctuated::<FnArg, Token![,]>::parse_separated_nonempty
RECURSIVE FnArgs_parse_separated_nonempty(_, _, _)
FnArgs_parse_separated_nonempty(toks, pos, acc) ==
    Try(FnArg_parse(toks, pos), LAMBDA a :
    IF Peek(toks, a.pos) = ","
    THEN FnArgs_parse_separated_nonempty(toks, a.pos + 1, Append(acc, a.val))
    ELSE Ok(Append(acc, a.val), a.pos))

\* input.parse::<Option<Token![default]>>()
OptionDefault_parse(toks, pos) ==
    IF Peek(toks, pos) = "default" THEN Ok(Some("default"), pos + 1) ELSE Ok(None, pos)

\* the optional generic parameter clause of an arm
ArmGenerics_parse(toks, pos) ==
    IF Peek(toks, pos) = "<"
    THEN Try(ParseToken(toks, pos, "<"), LAMBDA lt :
         Try(GenericParams_parse_separated_nonempty(toks, lt.pos, << >>), LAMBDA gp :
         Try(ParseToken(toks, gp.pos, ">"), LAMBDA gt :
         Ok(Some(gp.val), gt.pos))))
    ELSE Ok(None, pos)

\* the optional extra arguments inside an arm's parentheses
ArmExtraArgs_parse(toks, pos) ==
    IF Peek(toks, pos) = ","
    THEN Try(ParseToken(toks, pos, ","), LAMBDA comma :
         FnArgs_parse_separated_nonempty(toks, comma.pos, << >>))
    ELSE Ok(<< >>, pos)

\* parenthesized!: the group opens here
ParenOpen(toks, pos) ==
    IF Peek(toks, pos) = "(" THEN Ok("(", pos + 1) ELSE Err("expected parentheses", pos)

\* the group ends where its content was parsed to; tokens left in it fail the
\* parse (syn reports them as unexpected when the group's buffer is dropped)
ParenClose(toks, pos) ==
    IF Peek(toks, pos) = ")" THEN Ok(")", pos + 1) ELSE Err("unexpected token", pos)

DispatchArmExpr_parse(toks, pos) ==
    Try(OptionDefault_parse(toks, pos), LAMBDA default :
    Try(ParseToken(toks, default.pos, "fn"), LAMBDA kwfn :
    Try(ArmGenerics_parse(toks, kwfn.pos), LAMBDA generic_params :
    Try(ParenOpen(toks, generic_params.pos), LAMBDA open :
    Try(FnArg_parse(toks, open.pos), LAMBDA input_expr :
    Try(ArmExtraArgs_parse(toks, input_expr.pos), LAMBDA extra_args :
    Try(ParenClose(toks, extra_args.pos), LAMBDA close :
    Try(ParseToken(toks, close.pos, "=>"), LAMBDA fat :
    Try(Expr_parse(toks, fat.pos), LAMBDA body :
    Ok([default |-> default.val,
        generic_params |-> generic_params.val,
        input_expr |-> input_expr.val,
        extra_args |-> extra_args.val,
        body |-> body.val], body.pos))))))))))

IsArmStart(t) == t = "default" \/ t = "fn"

RECURSIVE parse_punctuated_arms_loop(_, _, _)
parse_punctuated_arms_loop(toks, pos, arms) ==
    IF IsArmStart(Peek(toks, pos))
    THEN Try(DispatchArmExpr_parse(toks, pos), LAMBDA arm :
         IF Peek(toks, arm.pos) = "," /\ IsArmStart(Peek(toks, arm.pos + 1))
         THEN parse_punctuated_arms_loop(toks, arm.pos + 1, Append(arms, arm.val))
         ELSE Ok(Append(arms, arm.val), arm.pos))
    ELSE Ok(arms, pos)

\* a parser that insists on exactly one arm marked default
parse_punctuated_arms_one_default(toks, pos) ==
    Try(parse_punctuated_arms_loop(toks, pos, << >>), LAMBDA arms :
    IF Cardinality({j \in 1..Len(arms.val) : arms.val[j].default # None}) = 1
    THEN arms ELSE Err("expected exactly one default arm", pos))

parse_punctuated_arms(toks, pos) == parse_punctuated_arms_loop(toks, pos, << >>)

\* Punctuated::<Expr, Token![,]>::parse_terminated
RECURSIVE Exprs_parse_terminated(_, _, _)
Exprs_parse_terminated(toks, pos, acc) ==
    IF pos > Len(toks) THEN Ok(acc, pos) ELSE
    Try(Expr_parse(toks, pos), LAMBDA e :
    IF e.pos > Len(toks) THEN Ok(Append(acc, e.val), e.pos) ELSE
    Try(ParseToken(toks, e.pos, ","), LAMBDA comma :
    Exprs_parse_terminated(toks, comma.pos, Append(acc, e.val))))

\* input.parse::<Token![,]>().ok(): a comma is consumed when it is there
OptionalComma_parse(toks, pos) ==
    IF Peek(toks, pos) = "," THEN Ok(Some(","), pos + 1) ELSE Ok(None, pos)

SpecializedDispatchExpr_parse(toks) ==
    Try(Type_parse(toks, 1), LAMBDA from_type :
    Try(ParseToken(toks, from_type.pos, "->"), LAMBDA arrow :
    Try(Type_parse(toks, arrow.pos), LAMBDA to_type :
    Try(ParseToken(toks, to_type.pos, ","), LAMBDA comma1 :
    Try(parse_punctuated_arms(toks, comma1.pos), LAMBDA arms :
    Try(ParseToken(toks, arms.pos, ","), LAMBDA comma2 :
    Try(Expr_parse(toks, comma2.pos), LAMBDA input_expr :
    Try(OptionalComma_parse(toks, input_expr.pos), LAMBDA comma3 :
    Try(Exprs_parse_terminated(toks, comma3.pos, << >>), LAMBDA extra_args :
    Ok([from_type |-> from_type.val,
        to_type |-> to_type.val,
        arms |-> arms.val,
        input_expr |-> input_expr.val,
        extra_args |-> extra_args.val], extra_args.pos))))))))))

\* ------------------------------------------------------------- generator

TraitName == "SpecializedDispatchCall"

FnArgName_to_tokens(name) == name.tok

FnArg_to_tokens(arg) == << FnArgName_to_tokens(arg.name), ":", arg.ty >>

\* #(, #extra_args)* : each argument's tokens, in order
FnArgs_to_tokens(args) == [i \in 1..Len(args) |-> FnArg_to_tokens(args[i])]

generate_trait_declaration(trait_name, extra_args, return_type) ==
    LET tpl == "T" IN
    [item |-> "trait",
     name |-> trait_name,
     tpl |-> tpl,
     method |-> "dispatch",
     params |-> << << "_", ":", tpl >> >> \o FnArgs_to_tokens(extra_args),
     ret |-> return_type]

\* a generator that makes an implementation generic only for an arm marked default
generate_trait_implementation_generic_if_default(default, trait_name, generic_params, input_expr, extra_args, return_type, body) ==
    [item |-> "impl",
     generics |-> IF default # None THEN generic_params ELSE None,
     trait |-> trait_name,
     trait_arg |-> input_expr.ty,
     self_ty |-> input_expr.ty,
     default |-> default,
     method |-> "dispatch",
     params |-> << FnArg_to_tokens(input_expr) >> \o FnArgs_to_tokens(extra_args),
     ret |-> return_type,
     body |-> body]

\* a generator that leaves the trait's type argument to inference
generate_trait_implementation_inferred(default, trait_name, generic_params, input_expr, extra_args, return_type, body) ==
    [item |-> "impl",
     generics |-> generic_params,
     trait |-> trait_name,
     trait_arg |-> "_",
     self_ty |-> input_expr.ty,
     default |-> default,
     method |-> "dispatch",
     params |-> << FnArg_to_tokens(input_expr) >> \o FnArgs_to_tokens(extra_args),
     ret |-> return_type,
     body |-> body]

\* a generator that loses the arm's default marker
generate_trait_implementation_unmarked(default, trait_name, generic_params, input_expr, extra_args, return_type, body) ==
    [item |-> "impl",
     generics |-> generic_params,
     trait |-> trait_name,
     trait_arg |-> input_expr.ty,
     self_ty |-> input_expr.ty,
     default |-> None,
     method |-> "dispatch",
     params |-> << FnArg_to_tokens(input_expr) >> \o FnArgs_to_tokens(extra_args),
     ret |-> return_type,
     body |-> body]

generate_trait_implementation(default, trait_name, generic_params, input_expr, extra_args, return_type, body) ==
    [item |-> "impl",
     generics |-> generic_params,
     trait |-> trait_name,
     trait_arg |-> input_expr.ty,
     self_ty |-> input_expr.ty,
     default |-> default,
     method |-> "dispatch",
     params |-> << FnArg_to_tokens(input_expr) >> \o FnArgs_to_tokens(extra_args),
     ret |-> return_type,
     body |-> body]

Reverse(q) == [i \in 1..Len(q) |-> q[Len(q) + 1 - i]]

\* a generator that forwards the extra arguments in reverse order
generate_dispatch_call_reversed(from_type, trait_name, input_expr, extra_args) ==
    [item |-> "call",
     self_ty |-> from_type,
     trait |-> trait_name,
     trait_arg |-> from_type,
     method |-> "dispatch",
     args |-> << input_expr >> \o Reverse(extra_args)]

generate_dispatch_call(from_type, trait_name, input_expr, extra_args) ==
    [item |-> "call",
     self_ty |-> from_type,
     trait |-> trait_name,
     trait_arg |-> from_type,
     method |-> "dispatch",
     args |-> << input_expr >> \o extra_args]

\* the for loop of to_tokens: acc is (trait_impls, extra_args) after the
\* first i - 1 arms
RECURSIVE to_tokens_loop_break(_, _, _, _)
\* a loop that stops at the first arm marked default
to_tokens_loop_break(self, trait_name, i, acc) ==
    IF i > Len(self.arms) THEN acc ELSE
    LET arm == self.arms[i]
        next == [extra_args |-> IF arm.default # None THEN arm.extra_args ELSE acc.extra_args,
                 trait_impls |-> Append(acc.trait_impls,
                     generate_trait_implementation(arm.default, trait_name, arm.generic_params,
                         arm.input_expr, arm.extra_args, self.to_type, arm.body))]
    IN IF arm.default # None THEN next
       ELSE to_tokens_loop_break(self, trait_name, i + 1, next)

RECURSIVE to_tokens_loop_first(_, _, _, _)
\* a loop that keeps the extra parameters of the first arm marked default
to_tokens_loop_first(self, trait_name, i, acc) ==
    IF i > Len(self.arms) THEN acc ELSE
    LET arm == self.arms[i]
        first == arm.default # None /\ \A k \in 1..(i - 1) : self.arms[k].default = None
    IN to_tokens_loop_first(self, trait_name, i + 1,
        [extra_args |-> IF first THEN arm.extra_args ELSE acc.extra_args,
         trait_impls |-> Append(acc.trait_impls,
             generate_trait_implementation(arm.default, trait_name, arm.generic_params,
                 arm.input_expr, arm.extra_args, self.to_type, arm.body))])

RECURSIVE to_tokens_loop(_, _, _, _)
to_tokens_loop(self, trait_name, i, acc) ==
    IF i > Len(self.arms) THEN acc ELSE
    LET arm == self.arms[i] IN
    to_tokens_loop(self, trait_name, i + 1,
        [extra_args |-> IF arm.default # None THEN arm.extra_args ELSE acc.extra_args,
         trait_impls |-> Append(acc.trait_impls,
             generate_trait_implementation(arm.default, trait_name, arm.generic_params,
                 arm.input_expr, arm.extra_args, self.to_type, arm.body))])

\* a generator that emits its items without the enclosing block
SpecializedDispatchExpr_to_tokens_unbraced(self) ==
    LET trait_name == TraitName
        loop == to_tokens_loop(self, trait_name, 1,
                               [extra_args |-> << >>, trait_impls |-> << >>])
        trait_decl == generate_trait_declaration(trait_name, loop.extra_args, self.to_type)
        dispatch_call == generate_dispatch_call(self.from_type, trait_name,
                                                self.input_expr, self.extra_args)
    IN [braced |-> FALSE,
        items |-> << trait_decl >> \o loop.trait_impls \o << dispatch_call >>]

SpecializedDispatchExpr_to_tokens(self) ==
    LET trait_name == TraitName
        loop == to_tokens_loop(self, trait_name, 1,
                               [extra_args |-> << >>, trait_impls |-> << >>])
        trait_decl == generate_trait_declaration(trait_name, loop.extra_args, self.to_type)
        dispatch_call == generate_dispatch_call(self.from_type, trait_name,
                                                self.input_expr, self.extra_args)
    IN [braced |-> TRUE,
        items |-> << trait_decl >> \o loop.trait_impls \o << dispatch_call >>]

\* syn::Error::to_compile_error
to_compile_error(r) ==
    [braced |-> FALSE,
     items |-> << [item |-> "compile_error", msg |-> r.err, at |-> r.pos] >>]

\* parse_macro_input! returns the diagnostic on a parse error
\* an entry point that reports the error and still emits an expansion
ExpandParsed_recovering(r) ==
    IF r.ok THEN SpecializedDispatchExpr_to_tokens(r.val)
    ELSE [braced |-> TRUE,
          items |-> to_compile_error(r).items
                    \o << generate_trait_declaration(TraitName, << >>, "_") >>]

ExpandParsed(r) ==
    IF r.ok THEN SpecializedDispatchExpr_to_tokens(r.val) ELSE to_compile_error(r)

specialized_dispatch(input) == ExpandParsed(SpecializedDispatchExpr_parse(input))

\* ------------------------------------------------------------- host compiler
\* The compiler that receives the expansions of one lexical scope: item
\* scoping, signature checking, impl coherence under specialization, and the
\* resolution and evaluation of each dispatch call.

ConcreteTypes == {"u8", "u16", "f64"}

\* the type of a call-site expression: the dispatched value carries its type
\* in its name, every extra argument literal is a u8
HostTypeOf(e) ==
    IF e = "x_u8" THEN "u8"
    ELSE IF e = "x_u16" THEN "u16"
    ELSE IF e = "x_f64" THEN "f64"
    ELSE IF e \in Literals THEN "u8"
    ELSE "unknown"

HostItems(out, kind) == SelectSeq(out.items, LAMBDA it : it.item = kind)

\* Items declared in a block are visible in that block only and shadow the
\* enclosing scope; items of an unbraced expansion land in the enclosing
\* scope.  The result is the index of the expansion that declares the trait
\* the name resolves to in expansion i, or 0 when there is none or several.
HostResolveTrait(outputs, i, name) ==
    LET Declares(j) == {n \in 1..Len(outputs[j].items) :
                           /\ outputs[j].items[n].item = "trait"
                           /\ outputs[j].items[n].name = name}
        outer == {j \in 1..Len(outputs) : ~outputs[j].braced /\ Declares(j) # {}}
    IN IF outputs[i].braced /\ Declares(i) # {}
       THEN IF Cardinality(Declares(i)) = 1 THEN i ELSE 0
       ELSE IF Cardinality(outer) = 1 /\ Cardinality(Declares(CHOOSE j \in outer : TRUE)) = 1
            THEN CHOOSE j \in outer : TRUE
            ELSE 0

\* the implementations of the trait declared by expansion t, as
\* <<expansion, item index>> pairs
HostImplsOf(outputs, t) ==
    {mn \in UNION {{<<m, n>> : n \in 1..Len(outputs[m].items)} : m \in 1..Len(outputs)} :
        /\ outputs[mn[1]].items[mn[2]].item = "impl"
        /\ HostResolveTrait(outputs, mn[1], outputs[mn[1]].items[mn[2]].trait) = t}

HostImplKind(impl) ==
    IF impl.generics = None
    THEN IF impl.self_ty \in ConcreteTypes /\ impl.trait_arg \in ConcreteTypes
         THEN "concrete" ELSE "invalid"
    ELSE LET gs == impl.generics[1] IN
         IF Len(gs) = 1 /\ gs[1].name = impl.self_ty /\ gs[1].name = impl.trait_arg
         THEN "blanket" ELSE "invalid"

\* an implementation's method must have the trait method's signature, with
\* the trait's type parameter replaced by the implementation's type argument
HostSignatureOk(decl, impl) ==
    LET Subst(ty) == IF ty = decl.tpl THEN impl.trait_arg ELSE ty IN
    /\ Len(impl.params) = Len(decl.params)
    /\ \A k \in 1..Len(decl.params) : impl.params[k][3] = Subst(decl.params[k][3])
    /\ impl.ret = decl.ret
    /\ impl.method = decl.method

HostCoherent(outputs, impls) ==
    LET It(mn) == outputs[mn[1]].items[mn[2]]
        concrete == {mn \in impls : HostImplKind(It(mn)) = "concrete"}
        blanket == {mn \in impls : HostImplKind(It(mn)) = "blanket"}
    IN /\ \A mn \in impls : HostImplKind(It(mn)) # "invalid"
       /\ \A a, b \in concrete : It(a).self_ty = It(b).self_ty => a = b
       /\ Cardinality(blanket) <= 1
       \* a method can be specialized only if the base marks it default
       /\ concrete # {} => \A mn \in blanket : It(mn).default # None

HostError == [status |-> "compile_error"]

\* the names an implementation's method binds, with the call's values
HostBind(impl, call) ==
    {<<impl.params[k][1], call.args[k]>> : k \in {k \in 1..Len(impl.params) : impl.params[k][1] # "_"}}

HostCheck(outputs, i) ==
    LET out == outputs[i]
        calls == HostItems(out, "call")
    IN
    IF HostItems(out, "compile_error") # << >> \/ Len(calls) # 1 THEN HostError ELSE
    LET call == calls[1]
        t == HostResolveTrait(outputs, i, call.trait)
    IN
    IF t = 0 THEN HostError ELSE
    LET decl == HostItems(outputs[t], "trait")[1]
        impls == HostImplsOf(outputs, t)
        It(mn) == outputs[mn[1]].items[mn[2]]
        exact == {mn \in impls : /\ HostImplKind(It(mn)) = "concrete"
                                 /\ It(mn).self_ty = call.self_ty
                                 /\ It(mn).trait_arg = call.trait_arg}
        blanket == {mn \in impls : HostImplKind(It(mn)) = "blanket"}
        applicable == IF exact # {} THEN exact ELSE blanket
    IN
    IF \/ ~HostCoherent(outputs, impls)
       \/ \E mn \in impls : ~HostSignatureOk(decl, It(mn))
       \/ call.self_ty \notin ConcreteTypes
       \/ call.self_ty # call.trait_arg
       \/ call.method # decl.method
       \/ Len(call.args) # Len(decl.params)
       \/ applicable = {}
    THEN HostError ELSE
    LET Subst(ty) == IF ty = decl.tpl THEN call.trait_arg ELSE ty IN
    IF \E k \in 1..Len(call.args) : HostTypeOf(call.args[k]) # Subst(decl.params[k][3])
    THEN HostError ELSE
    LET sel == CHOOSE mn \in applicable : TRUE IN
    [status |-> "ok",
     expansion |-> sel[1],
     item |-> sel[2],
     body |-> It(sel).body,
     env |-> HostBind(It(sel), call)]

HostEvaluate(outputs) == [i \in 1..Len(outputs) |-> HostCheck(outputs, i)]

\* ------------------------------------------------------------- invocations
\* The macro invocations the model expands, written as in
\* tests/integration_test.rs and examples/.

SrcTypes == {"u8", "u16", "f64"}

ValueOf(ty) == IF ty = "u8" THEN "x_u8" ELSE IF ty = "u16" THEN "x_u16" ELSE "x_f64"

ExtraArgExprs == << "a1", "a2", "a3", "a4" >>

ExtraParamNames == << "p1", "p2", "p3", "p4" >>

Bodies == << "b1", "b2", "b3", "b4", "b5" >>

ExtraCounts == {0, MaxExtra}

RECURSIVE Flatten(_)
Flatten(ss) == IF ss = << >> THEN << >> ELSE Head(ss) \o Flatten(Tail(ss))

ExtraParamTokens(n) == Flatten([i \in 1..n |-> << ",", ExtraParamNames[i], ":", "u8" >>])

ExtraArgTokens(k) == Flatten([i \in 1..k |-> << ",", ExtraArgExprs[i] >>])

GenericT == << "<", "T", ">" >>

GenericTDisplay == << "<", "T", ":", "Display", ">" >>

DefaultGenericShape == [default |-> TRUE, generics |-> GenericT, name |-> "_", ty |-> "T"]

ConcreteU8Shape == [default |-> FALSE, generics |-> << >>, name |-> "v", ty |-> "u8"]

ArmShapes ==
    { DefaultGenericShape,
      [default |-> FALSE, generics |-> GenericTDisplay, name |-> "v", ty |-> "T"],
      [default |-> TRUE,  generics |-> << >>,           name |-> "v", ty |-> "u8"],
      ConcreteU8Shape,
      [default |-> FALSE, generics |-> << >>,           name |-> "_", ty |-> "u16"] }

\* every shape without extra parameters, and the default and one concrete
\* shape with extra parameters as well
ArmChoices ==
    [shape : ArmShapes, n : {0}] \cup [shape : {DefaultGenericShape, ConcreteU8Shape}, n : {MaxExtra}]

ArmTokens(a, body) ==
    (IF a.shape.default THEN << "default" >> ELSE << >>)
    \o << "fn" >> \o a.shape.generics
    \o << "(", a.shape.name, ":", a.shape.ty >> \o ExtraParamTokens(a.n)
    \o << ")", "=>", body >>

ArmListTokens(arms) ==
    Flatten([i \in 1..Len(arms) |->
        (IF i > 1 THEN << "," >> ELSE << >>) \o ArmTokens(arms[i], Bodies[i])])

InvocationTokens(from, arms, k, trailing) ==
    << from, "->", "String", "," >> \o ArmListTokens(arms)
    \o << ",", ValueOf(from) >> \o ExtraArgTokens(k)
    \o (IF trailing THEN << "," >> ELSE << >>)

ArmSeqs == UNION {[1..m -> ArmChoices] : m \in 0..MaxArms}

\* the value expressions an invocation may name: the variable of the source
\* type, or a variable called default (default is an ordinary identifier in
\* expression position)
ValueExprs(from) == {ValueOf(from), "default"}

InvocationWithValue(from, arms, value, k, trailing) ==
    << from, "->", "String", "," >> \o ArmListTokens(arms)
    \o << ",", value >> \o ExtraArgTokens(k)
    \o (IF trailing THEN << "," >> ELSE << >>)

\* Malformed invocations: one token of a well-formed invocation deleted,
\* doubled, or replaced by a wrong separator.
Delete(toks, i) == SubSeq(toks, 1, i - 1) \o SubSeq(toks, i + 1, Len(toks))

Duplicate(toks, i) == SubSeq(toks, 1, i) \o SubSeq(toks, i, Len(toks))

Replace(toks, i, t) == [toks EXCEPT ![i] = t]

EditArmChoices ==
    [shape : { [default |-> TRUE,  generics |-> GenericTDisplay, name |-> "v", ty |-> "T"],
               [default |-> FALSE, generics |-> << >>,           name |-> "_", ty |-> "u8"] },
     n : ExtraCounts]

EditArmSeqs == UNION {[1..m -> EditArmChoices] : m \in 0..(MaxArms - 1)}

Edits(toks) ==
    {toks} \cup {Delete(toks, i) : i \in 1..Len(toks)}
           \cup {Duplicate(toks, i) : i \in 1..Len(toks)}
           \cup {Replace(toks, i, ";") : i \in 1..Len(toks)}

\* examples/trait_bound.rs, with the type parameter Arg instantiated at ty
TraitBoundExample(ty) ==
    << ValueOf(ty), ",", ty, "->", "String", ",",
       "fn", "<", "T", ":", "Display", ">", "(", "v", ":", "T", ")", "=>", "b1", ",",
       "fn", "(", "v", ":", "u8", ")", "=>", "b2", ",",
       "fn", "(", "v", ":", "u16", ")", "=>", "b3", "," >>


\* tests/integration_test.rs, test_multiple_calls_in_same_scope: the same arm
\* set expanded for several source types in one scope
ScopeArms ==
    << [shape |-> [default |-> FALSE, generics |-> << >>, name |-> "_", ty |-> "u8"], n |-> 0],
       [shape |-> [default |-> FALSE, generics |-> << >>, name |-> "_", ty |-> "u16"], n |-> 0],
       [shape |-> [default |-> TRUE, generics |-> GenericT, name |-> "_", ty |-> "T"], n |-> 0] >>

ScopeInvocations ==
    {InvocationTokens(f, arms, 0, TRUE) :
        f \in SrcTypes,
        arms \in {ScopeArms, SubSeq(ScopeArms, 1, 1), SubSeq(ScopeArms, 3, 3), << >>}}

\* ------------------------------------------------------------- state machine

VARIABLES invocations, parsed, outputs, results

vars == << invocations, parsed, outputs, results >>

Init ==
    /\ \E f \in SrcTypes, arms \in ArmSeqs, k \in ExtraCounts, tr \in BOOLEAN :
           invocations = << InvocationTokens(f, arms, k, tr) >>
    /\ parsed = << >>
    /\ outputs = << >>
    /\ results = << >>

\* the compiler front end expands the next macro occurrence of the scope;
\* parsed keeps what the occurrence was parsed to
Expand ==
    /\ Len(outputs) < Len(invocations)
    /\ parsed' = Append(parsed, SpecializedDispatchExpr_parse(invocations[Len(outputs) + 1]))
    /\ outputs' = Append(outputs, specialized_dispatch(invocations[Len(outputs) + 1]))
    /\ UNCHANGED << invocations, results >>

\* the compiler checks the expanded scope and evaluates its dispatch calls
Compile ==
    /\ Len(outputs) = Len(invocations)
    /\ results = << >>
    /\ results' = HostEvaluate(outputs)
    /\ UNCHANGED << invocations, parsed, outputs >>

Next == Expand \/ Compile

Spec == Init /\ [][Next]_vars

\* malformed and historical invocations
InitTokens ==
    /\ \/ \E arms \in EditArmSeqs, k \in ExtraCounts, tr \in BOOLEAN :
              \E toks \in Edits(InvocationTokens("u8", arms, k, tr)) : invocations = << toks >>
       \/ \E ty \in SrcTypes : invocations = << TraitBoundExample(ty) >>
    /\ parsed = << >>
    /\ outputs = << >>
    /\ results = << >>

SpecTokens == InitTokens /\ [][Next]_vars

\* well-formed invocations over every value expression
InitValues ==
    /\ \E f \in SrcTypes, arms \in ArmSeqs, k \in ExtraCounts, tr \in BOOLEAN :
           \E v \in ValueExprs(f) : invocations = << InvocationWithValue(f, arms, v, k, tr) >>
    /\ parsed = << >>
    /\ outputs = << >>
    /\ results = << >>

SpecValues == InitValues /\ [][Next]_vars

\* several invocations in one lexical scope
InitScope ==
    /\ invocations \in UNION {[1..m -> ScopeInvocations] : m \in 1..MaxScope}
    /\ parsed = << >>
    /\ outputs = << >>
    /\ results = << >>

SpecScope == InitScope /\ [][Next]_vars

Done == Len(results) = Len(invocations)

Parsed(i) == parsed[i].ok

Ast(i) == parsed[i].val

\* ------------------------------------------------------------- properties

Defaults(e) == {j \in 1..Len(e.arms) : e.arms[j].default # None}

\* the arm binds a generic parameter it declares itself
GenericArm(arm) ==
    /\ arm.generic_params # None
    /\ \E g \in 1..Len(arm.generic_params[1]) : arm.generic_params[1][g].name = arm.input_expr.ty

ConcreteArm(arm) == arm.generic_params = None /\ arm.input_expr.ty \in ConcreteTypes

\* every arm declares as many extra parameters as the call passes arguments
ExtrasAgree(e) == \A j \in 1..Len(e.arms) : Len(e.arms[j].extra_args) = Len(e.extra_args)

\* one generic default arm, the other arms unmarked and over distinct concrete types
OneDefaultDisjoint(e) ==
    /\ Cardinality(Defaults(e)) = 1
    /\ \A j \in Defaults(e) : GenericArm(e.arms[j])
    /\ \A j \in (1..Len(e.arms)) \ Defaults(e) : ConcreteArm(e.arms[j])
    /\ \A j, k \in (1..Len(e.arms)) \ Defaults(e) :
           e.arms[j].input_expr.ty = e.arms[k].input_expr.ty => j = k

\* the arm the claim expects to fire for the value's type
ExpectedArm(e) ==
    LET ty == HostTypeOf(e.input_expr)
        match == {j \in (1..Len(e.arms)) \ Defaults(e) : e.arms[j].input_expr.ty = ty}
    IN IF match # {} THEN CHOOSE j \in match : TRUE ELSE CHOOSE j \in Defaults(e) : TRUE

\* C1: with exactly one generic default arm and concrete arms over pairwise
\* distinct types (and extra parameters that agree with the call), a value of
\* a concrete arm's type yields that arm's body and a value of any other type
\* yields the default arm's body.
C1_DispatchSelectsMostSpecific ==
    Done => \A i \in 1..Len(invocations) :
        (Parsed(i) /\ OneDefaultDisjoint(Ast(i)) /\ ExtrasAgree(Ast(i))) =>
            /\ results[i].status = "ok"
            /\ results[i].body = Ast(i).arms[ExpectedArm(Ast(i))].body

C1_Witness ==
    /\ Done
    /\ Parsed(1) /\ OneDefaultDisjoint(Ast(1)) /\ ExtrasAgree(Ast(1))
    /\ Len(Ast(1).arms) >= 3
    /\ ExpectedArm(Ast(1)) \notin Defaults(Ast(1))
    /\ results[1].status = "ok"
    /\ results[1].body = Ast(1).arms[ExpectedArm(Ast(1))].body

\* what an evaluation yields: the body that ran and the names it saw
Outcome(r) == IF r.status = "ok" THEN << r.body, r.env >> ELSE << "compile_error" >>

Permuted(e, f) == [e EXCEPT !.arms = [j \in 1..Len(e.arms) |-> e.arms[f[j]]]]

\* C2: the expansion of an expression whose arms are permuted in any way
\* evaluates to the same result as the expansion of the expression itself.
C2_ArmOrderIrrelevant ==
    Done => \A i \in 1..Len(invocations) : Parsed(i) =>
        LET e == Ast(i)
            expected == Outcome(results[i])
        IN \A f \in Permutations(1..Len(e.arms)) :
            Outcome(HostEvaluate(<< SpecializedDispatchExpr_to_tokens(Permuted(e, f)) >>)[1])
                = expected

C2_Witness ==
    /\ Done
    /\ Parsed(1)
    /\ Len(Ast(1).arms) >= 3
    /\ Defaults(Ast(1)) = {1}
    /\ results[1].status = "ok"
    /\ results[1].item = 3
    /\ \A f \in Permutations(1..Len(Ast(1).arms)) :
          Outcome(HostEvaluate(<< SpecializedDispatchExpr_to_tokens(Permuted(Ast(1), f)) >>)[1])
              = Outcome(results[1])

\* the arm whose implementation the host selected
SelectedArm(i) == Ast(i).arms[results[i].item - 1]

\* C3: when the call passes k extra arguments and every arm declares k extra
\* parameters, the selected arm's body sees its j-th extra parameter name
\* bound to the j-th extra argument, for every j in 1..k.
C3_ExtraArgsPositional ==
    Done => \A i \in 1..Len(invocations) :
        (Parsed(i) /\ ExtrasAgree(Ast(i)) /\ results[i].status = "ok") =>
            \A j \in 1..Len(Ast(i).extra_args) :
                SelectedArm(i).extra_args[j].name.variant = "Ident" =>
                    << SelectedArm(i).extra_args[j].name.tok, Ast(i).extra_args[j] >>
                        \in results[i].env

C3_Witness ==
    /\ Done
    /\ Parsed(1) /\ ExtrasAgree(Ast(1)) /\ results[1].status = "ok"
    /\ Len(Ast(1).extra_args) >= 2
    /\ Len(Ast(1).arms) >= 2
    /\ SelectedArm(1).default = None
    /\ << "p2", "a2" >> \in results[1].env

\* C4: every expansion in a scope resolves to the trait and implementations
\* of that same expansion, and evaluates as if it were alone in the scope.
C4_ExpansionsIndependent ==
    Done => \A i \in 1..Len(invocations) :
        /\ results[i].status = "ok" => results[i].expansion = i
        /\ Outcome(results[i]) = Outcome(HostEvaluate(<< outputs[i] >>)[1])

C4_Witness ==
    /\ Done
    /\ Len(invocations) = 2
    /\ invocations[1] = InvocationTokens("u8", ScopeArms, 0, TRUE)
    /\ invocations[2] = InvocationTokens("u16", ScopeArms, 0, TRUE)
    /\ results[1].status = "ok" /\ results[1].body = "b1"
    /\ results[2].status = "ok" /\ results[2].body = "b2"

\* The grammar of spec section 4.1, as a recogniser over sets of positions:
\*   DispatchExpr := SourceType '->' DestType ',' ArmList ',' ValueExpr (',' ExtraArg)* ','?
\*   ArmList      := (Arm (',' Arm)*)?
\*   Arm          := 'default'? 'fn' GenericParams? '(' InputBinding (',' ExtraParam)* ')' '=>' BodyExpr
\*   GenericParams:= '<' GenericParam (',' GenericParam)* '>'
\*   InputBinding := (Identifier | '_') ':' Type
\* Each operator maps the positions a prefix may end at to the positions the
\* prefix followed by its construct may end at.
GTok(toks, S, t) == {p + 1 : p \in {q \in S : Peek(toks, q) = t}}

GOpt(toks, S, t) == S \cup GTok(toks, S, t)

GName(toks, S) == {p + 1 : p \in {q \in S : IsIdent(Peek(toks, q))}}

GExpr(toks, S) ==
    {p + 1 : p \in {q \in S : IsIdent(Peek(toks, q)) \/ Peek(toks, q) \in Literals}}

GBinding(toks, S) == GName(toks, GTok(toks, GName(toks, S) \cup GTok(toks, S, "_"), ":"))

RECURSIVE GExtraParams(_, _)
GExtraParams(toks, S) ==
    IF S = {} THEN {} ELSE S \cup GExtraParams(toks, GBinding(toks, GTok(toks, S, ",")))

GGenericParam(toks, S) == GOpt(toks, GName(toks, S), ":") \cup GName(toks, GTok(toks, GName(toks, S), ":"))

RECURSIVE GGenericList(_, _)
GGenericList(toks, S) ==
    IF S = {} THEN {} ELSE S \cup GGenericList(toks, GGenericParam(toks, GTok(toks, S, ",")))

GGenericParams(toks, S) ==
    GTok(toks, GGenericList(toks, GGenericParam(toks, GTok(toks, S, "<"))), ">")

GArmHead(toks, S) == GTok(toks, GOpt(toks, S, "default"), "fn")

GArmParams(toks, S) == GTok(toks, GExtraParams(toks, GBinding(toks, GTok(toks, S, "("))), ")")

GArm(toks, S) ==
    GExpr(toks, GTok(toks,
        GArmParams(toks, GArmHead(toks, S) \cup GGenericParams(toks, GArmHead(toks, S))), "=>"))

RECURSIVE GArmsMore(_, _)
GArmsMore(toks, S) ==
    IF S = {} THEN {} ELSE S \cup GArmsMore(toks, GArm(toks, GTok(toks, S, ",")))

GArmList(toks, S) == S \cup GArmsMore(toks, GArm(toks, S))

RECURSIVE GExtraArgs(_, _)
GExtraArgs(toks, S) ==
    IF S = {} THEN {} ELSE S \cup GExtraArgs(toks, GExpr(toks, GTok(toks, S, ",")))

GTypePair(toks) == GTok(toks, GName(toks, GTok(toks, GName(toks, {1}), "->")), ",")

MatchesGrammar(toks) ==
    (Len(toks) + 1) \in
        GOpt(toks, GExtraArgs(toks, GExpr(toks, GTok(toks, GArmList(toks, GTypePair(toks)), ","))), ",")

\* C5: an invocation parses if and only if it matches the grammar of spec
\* section 4.1; in particular every extra argument is preceded by a comma.
C5_ParsesIffMatchesGrammar ==
    \A i \in 1..Len(parsed) : parsed[i].ok <=> MatchesGrammar(invocations[i])

\* C6: when parsing fails the macro's output is the parse error's diagnostic
\* alone: no block, no trait declaration, no implementation, no dispatch call.
C6_ParseErrorIsSoleOutput ==
    \A i \in 1..Len(outputs) : ~parsed[i].ok =>
        /\ ~outputs[i].braced
        /\ outputs[i].items =
               << [item |-> "compile_error", msg |-> parsed[i].err, at |-> parsed[i].pos] >>
        /\ \A n \in 1..Len(outputs[i].items) :
               outputs[i].items[n].item \notin {"trait", "impl", "call"}

\* a parse that failed after a whole arm had been parsed
C6_Witness ==
    /\ Len(outputs) = 1
    /\ ~parsed[1].ok
    /\ parsed[1].pos > 12
    /\ \E p \in 1..Len(invocations[1]) : invocations[1][p] = "=>" /\ p + 1 < parsed[1].pos
    /\ Len(outputs[1].items) = 1
    /\ outputs[1].items[1].item = "compile_error"

\* the number of arms an invocation writes
ArmsWritten(toks) == Cardinality({p \in 1..Len(toks) : toks[p] = "fn"})

CompleteExpansion(out, n) ==
    /\ out.braced
    /\ Len(out.items) = n + 2
    /\ out.items[1].item = "trait"
    /\ \A j \in 2..(n + 1) : out.items[j].item = "impl"
    /\ out.items[n + 2].item = "call"

SameTypeArms(e) ==
    \E j, k \in 1..Len(e.arms) :
        j # k /\ ConcreteArm(e.arms[j]) /\ ConcreteArm(e.arms[k])
              /\ e.arms[j].input_expr.ty = e.arms[k].input_expr.ty

C8_ValueFirstExampleExpands ==
    \A ty \in SrcTypes :
        (Done /\ invocations = << TraitBoundExample(ty) >>) =>
            /\ parsed[1].ok
            /\ results[1].status = "ok"
            /\ results[1].body = (IF ty = "u8" THEN "b2" ELSE IF ty = "u16" THEN "b3" ELSE "b1")

ParamTokens(arm) ==
    << << arm.input_expr.name.tok, ":", arm.input_expr.ty >> >>
    \o [k \in 1..Len(arm.extra_args) |->
           << arm.extra_args[k].name.tok, ":", arm.extra_args[k].ty >>]

ImplBuiltFrom(im, arm) ==
    /\ im.item = "impl"
    /\ im.self_ty = arm.input_expr.ty
    /\ im.trait_arg = arm.input_expr.ty
    /\ im.params = ParamTokens(arm)
    /\ im.body = arm.body

\* C9: the output for a parsed expression with N arms is one block holding,
\* in order, one trait declaration, N implementations of which the j-th is
\* built from the j-th arm, and one dispatch call on the source type.
C9_OutputStructure ==
    \A i \in 1..Len(outputs) : parsed[i].ok =>
        LET e == Ast(i)
            out == outputs[i]
            n == Len(e.arms)
        IN /\ out.braced
           /\ Len(out.items) = n + 2
           /\ out.items[1].item = "trait"
           /\ \A j \in 1..n : ImplBuiltFrom(out.items[j + 1], e.arms[j])
           /\ out.items[n + 2].item = "call"
           /\ out.items[n + 2].self_ty = e.from_type
           /\ out.items[n + 2].trait_arg = e.from_type

C9_Witness ==
    /\ Len(outputs) = 1
    /\ parsed[1].ok
    /\ Len(Ast(1).arms) = 3
    /\ Len(Ast(1).arms[2].extra_args) >= 2
    /\ Len(outputs[1].items) = 5
    /\ ImplBuiltFrom(outputs[1].items[3], Ast(1).arms[2])
    /\ outputs[1].items[3].body = "b2"
    /\ outputs[1].items[5].self_ty = invocations[1][1]

\* C10 as claimed: an implementation is generic exactly when its arm is
\* marked default.
C10_GenericIffDefault ==
    \A i \in 1..Len(outputs) : parsed[i].ok =>
        \A j \in 1..Len(Ast(i).arms) :
            (outputs[i].items[j + 1].generics # None) <=> (Ast(i).arms[j].default # None)

\* the positions of the fn keywords, in order: the j-th arm starts there
RECURSIVE FnPositions(_, _)
FnPositions(toks, p) ==
    IF p > Len(toks) THEN << >>
    ELSE (IF toks[p] = "fn" THEN << p >> ELSE << >>) \o FnPositions(toks, p + 1)

\* C10 amended: an implementation is generic exactly when its arm writes a
\* generic parameter clause, and is marked default exactly when its arm is,
\* the two independently of each other.
C10_GenericIffGenericClause ==
    \A i \in 1..Len(outputs) : parsed[i].ok =>
        LET fns == FnPositions(invocations[i], 1) IN
        /\ Len(fns) = Len(Ast(i).arms)
        /\ \A j \in 1..Len(fns) :
              /\ (outputs[i].items[j + 1].generics # None)
                     <=> (Peek(invocations[i], fns[j] + 1) = "<")
              /\ (outputs[i].items[j + 1].default # None)
                     <=> (Peek(invocations[i], fns[j] - 1) = "default")
              /\ outputs[i].items[j + 1].generics = Ast(i).arms[j].generic_params

\* an unmarked generic arm and a default arm without generic parameters
C10_Witness ==
    /\ Len(outputs) = 1
    /\ parsed[1].ok
    /\ \E j \in 1..Len(Ast(1).arms) :
          /\ Ast(1).arms[j].default = None
          /\ outputs[1].items[j + 1].generics # None
    /\ \E j \in 1..Len(Ast(1).arms) :
          /\ Ast(1).arms[j].default # None
          /\ outputs[1].items[j + 1].generics = None

\* the extra parameters an arm declares, as written
ExtraParamsOf(arm) ==
    [k \in 1..Len(arm.extra_args) |->
        << arm.extra_args[k].name.tok, ":", arm.extra_args[k].ty >>]

\* all arms declare the same extra parameter list
ArmsConsistent(e) ==
    \A j, k \in 1..Len(e.arms) : ExtraParamsOf(e.arms[j]) = ExtraParamsOf(e.arms[k])

\* the greatest member of a non-empty set of arm positions
Last(S) == CHOOSE j \in S : \A k \in S : k <= j

\* C11: the trait's dispatch method declares the input parameter followed by
\* exactly the extra parameters of the last arm marked default, and none when
\* no arm is marked default whatever the arms declare; with one default arm
\* and consistent arms every implementation's method has the trait method's
\* extra parameter list.
C11_TraitExtraParamsFromLastDefault ==
    \A i \in 1..Len(outputs) : parsed[i].ok =>
        LET e == Ast(i)
            decl == outputs[i].items[1]
            D == Defaults(e)
        IN /\ decl.item = "trait"
           /\ Head(decl.params) = << "_", ":", decl.tpl >>
           /\ Tail(decl.params) =
                  (IF D = {} THEN << >> ELSE ExtraParamsOf(e.arms[Last(D)]))
           /\ (Cardinality(D) = 1 /\ ArmsConsistent(e)) =>
                  \A j \in 1..Len(e.arms) :
                      Tail(outputs[i].items[j + 1].params) = Tail(decl.params)

\* two default arms with different extra parameter lists followed by an
\* unmarked arm: the trait method follows the second arm, not the first and
\* not the last arm written
C11_Witness ==
    /\ Len(outputs) = 1
    /\ parsed[1].ok
    /\ Len(Ast(1).arms) = 3
    /\ Defaults(Ast(1)) = {1, 2}
    /\ Len(Ast(1).arms[1].extra_args) = MaxExtra
    /\ Len(Ast(1).arms[2].extra_args) = 0
    /\ Len(Ast(1).arms[3].extra_args) = MaxExtra
    /\ Len(outputs[1].items[1].params) = 1
    /\ Len(outputs[1].items[2].params) = 1 + MaxExtra

\* no arm marked default while an arm declares extra parameters: the trait
\* method declares none
C11_NoDefaultReached ==
    /\ Len(outputs) = 1
    /\ parsed[1].ok
    /\ Defaults(Ast(1)) = {}
    /\ \E j \in 1..Len(Ast(1).arms) : Len(Ast(1).arms[j].extra_args) = MaxExtra
    /\ Len(outputs[1].items[1].params) = 1

\* the positions of the => tokens, in order: the j-th arm's body follows
RECURSIVE FatArrowPositions(_, _)
FatArrowPositions(toks, p) ==
    IF p > Len(toks) THEN << >>
    ELSE (IF toks[p] = "=>" THEN << p >> ELSE << >>) \o FatArrowPositions(toks, p + 1)

\* where the arm list starts: after the type pair and its comma
ArmListStart == 5

\* the comma written between the arm list and the value expression
ValueComma(toks) ==
    LET arrows == FatArrowPositions(toks, 1)
    IN IF arrows = << >> THEN ArmListStart ELSE arrows[Len(arrows)] + 2

WrittenValue(toks) == toks[ValueComma(toks) + 1]

WrittenExtraArgs(toks) ==
    [k \in 1..((Len(toks) - ValueComma(toks) - 1) \div 2) |-> toks[ValueComma(toks) + 1 + 2 * k]]

\* the loop returned the arms written, in order, and stopped at the comma
\* before the value expression; the rest parsed as written
LoopYieldsWritten(toks, r) ==
    LET loop == parse_punctuated_arms(toks, ArmListStart)
        fns == FnPositions(toks, 1)
        arrows == FatArrowPositions(toks, 1)
    IN /\ loop.ok
       /\ Len(loop.val) = Len(fns)
       /\ \A j \in 1..Len(fns) :
              /\ (loop.val[j].default # None) <=> (Peek(toks, fns[j] - 1) = "default")
              /\ loop.val[j].body = toks[arrows[j] + 1]
       /\ loop.pos = ValueComma(toks)
       /\ toks[loop.pos] = ","
       /\ r.ok
       /\ r.val.arms = loop.val
       /\ r.val.input_expr = WrittenValue(toks)
       /\ r.val.extra_args = WrittenExtraArgs(toks)

\* C12: for every invocation of N arms followed by a comma, a value
\* expression and extra arguments, the arm loop returns exactly the N arms in
\* source order and leaves the comma before the value expression unconsumed,
\* and the parsed value expression and extra arguments are those written
\* after that comma.
C12_LoopLeavesValueComma ==
    \A i \in 1..Len(parsed) : LoopYieldsWritten(invocations[i], parsed[i])

\* the same for every invocation whose value expression does not begin with
\* default or fn
LoopLeavesValueCommaUnlessArmStart ==
    \A i \in 1..Len(parsed) :
        ~IsArmStart(WrittenValue(invocations[i])) => LoopYieldsWritten(invocations[i], parsed[i])

\* after at least one arm, a value expression named default is always taken
\* for the start of a further arm, which fails where fn is expected
ValueNamedDefaultRejected ==
    \A i \in 1..Len(parsed) :
        (WrittenValue(invocations[i]) = "default" /\ ArmsWritten(invocations[i]) >= 1) =>
            /\ ~parsed[i].ok
            /\ parsed[i].pos = ValueComma(invocations[i]) + 2

\* three arms and two extra arguments parsed as written
LoopLeavesValueCommaReached ==
    /\ Len(parsed) = 1
    /\ parsed[1].ok
    /\ Len(Ast(1).arms) = MaxArms
    /\ Len(Ast(1).extra_args) = MaxExtra
    /\ LoopYieldsWritten(invocations[1], parsed[1])

====
